---- MODULE Spec2Model ----
(***************************************************************************)
(* Model of the StatusMatrix controller (status_matrix.py): the public     *)
(* API (start, stop, set_override, clear_override), the sampler loop       *)
(* (_poll_loop/_poll), the render loop (_render_loop/_render), the shared  *)
(* state guarded by self.lock, and the drawing sink (self.uh).             *)
(*                                                                         *)
(* Time is counted in quarter seconds: one unit of `now` is 0.25 s, so     *)
(* the default animation period of 1.0 s is 4 units and the 0.5 s period   *)
(* is 2 units.  Python's None is the empty sequence <<>> and a present     *)
(* optional value v is <<v>>.  A dict is a function on its keys.           *)
(***************************************************************************)
EXTENDS Integers, Sequences, FiniteSets, TLC

VARIABLES
    running,       \* self.running
    lock,          \* holder of self.lock: <<>> when free, else <<thread>>
    state,         \* self.state: quadrant -> dict
    overrides,     \* self.overrides: quadrant -> {color, mode, expiry}
    pollAttr,      \* self.poll_thread: <<>> while the attribute is unset
    renderAttr,    \* self.render_thread
    threads,       \* the Thread objects created so far, by index
    callers,       \* the API callers' program counters and locals
    sinkLog,       \* the last operations the sink received, newest last
    now,           \* time.time()
    buckets,       \* config.traffic["buckets_kbps"]
    hd,            \* self.hd: the 8x8 clipping mode of _set_pixel
    device,        \* config.device, the importable drivers, and self.uh
    hist,          \* history: calls made, cycles run, what each call meant
    tIn,           \* inputs of a single _read_traffic_level evaluation
    tOut           \* its result, <<>> before it ran

vars == <<running, lock, state, overrides, pollAttr, renderAttr, threads,
          callers, sinkLog, now, buckets, hd, device, hist, tIn, tOut>>

----------------------------------------------------------------------------
(* Bounds of the model. *)

MaxCycles == 2     \* poll cycles begun
MaxTicks == 2      \* quarter seconds passing
MaxBuckets == 3      \* thresholds in a bucket list
SinkTail == 2      \* sink operations remembered

----------------------------------------------------------------------------
(* Constants of the program. *)

None == <<>>
Some(v) == <<v>>

Quadrants == {"pi", "tor", "ap", "traffic"}

EmptyDict == [k \in {} |-> 0]

\* d.get(k, default)
Get(d, k, default) == IF k \in DOMAIN d THEN d[k] ELSE default

\* Config defaults.
DefaultBuckets == <<64, 256, 1024>>
WarnLoad == 2
WarnDiskPct == 85
CritTempC == 80
CritDiskPct == 95
WarnColor == <<255, 165, 0>>
CritColor == <<255, 0, 0>>
TorOnColor == <<0, 255, 255>>
ApOnColor == <<0, 128, 255>>
OkColor == <<0, 255, 0>>
Red == <<255, 0, 0>>
White == <<255, 255, 255>>
Off == <<0, 0, 0>>

\* period=1.0 and period=0.5 in quarter seconds
DefaultPeriod == 4
FastPeriod == 2

\* self.state after __init__
InitialState ==
    [pi |-> EmptyDict, tor |-> EmptyDict, ap |-> EmptyDict,
     traffic |-> [level |-> 0]]

----------------------------------------------------------------------------
(* Animation helpers. *)

\* blink(color, now, period, duty=0.5): phase = (now % period) / period,
\* color if phase < duty else (0, 0, 0)
blink(color, t, period) ==
    IF 2 * (t % period) < period THEN color ELSE Off

\* int(c * intensity) with intensity = 0.5 * (1 - cos(2*pi*phase)) in IEEE
\* doubles, at the four phases a quarter-second clock produces: intensity is
\* 0.0, 0.49999999999999994, 1.0 and 0.5000000000000001.
PulseChannel(c, quarter) ==
    CASE quarter = 0 -> 0
      [] quarter = 1 -> IF c > 0 /\ c % 2 = 0 THEN (c \div 2) - 1 ELSE c \div 2
      [] quarter = 2 -> c
      [] OTHER -> c \div 2

\* pulse(color, now, period=1.0)
pulse(color, t) ==
    [i \in 1..Len(color) |-> PulseChannel(color[i], t % DefaultPeriod)]

----------------------------------------------------------------------------
(* Drawing helpers.  Each returns the sink calls it makes, in order, and   *)
(* whether it raised; a call is [x, y, color].                             *)

RECURSIVE Flatten(_)
Flatten(ss) == IF ss = <<>> THEN <<>> ELSE Head(ss) \o Flatten(Tail(ss))

Min(a, b) == IF a < b THEN a ELSE b
Max(a, b) == IF a > b THEN a ELSE b

\* the elements of a sequence
Range2Set(seq) == {seq[k] : k \in 1..Len(seq)}

\* range(a, b) as a sequence
Range(a, b) == [k \in 1..Max(0, b - a) |-> a + k - 1]

\* _set_pixel(x, y, r, g, b): the uh.set_pixel calls it makes
_set_pixel(clip, x, y, color) ==
    IF clip
    THEN IF x < 8 /\ y < 8 THEN <<[x |-> x, y |-> y, color |-> color]>> ELSE <<>>
    ELSE <<[x |-> x, y |-> y, color |-> color]>>

\* _set_pixel(x, y, *color) raises TypeError unless color unpacks to r, g, b
BadArity(color) == Len(color) # 3

\* _fill_quad(origin, color)
_fill_quad(clip, ox, oy, color) ==
    IF BadArity(color)
    THEN [calls |-> <<>>, raised |-> TRUE]
    ELSE [calls |-> Flatten([i \in 1..4 |-> Flatten([j \in 1..4 |->
                        _set_pixel(clip, ox + i - 1, oy + j - 1, color)])]),
          raised |-> FALSE]

\* _fill_rows(origin, level, color)
_fill_rows(clip, ox, oy, level, color) ==
    [calls |-> Flatten([i \in 1..Max(0, level) |-> Flatten([j \in 1..4 |->
                  LET ys == Range(oy + 3 - (i - 1), oy + 4)
                  IN  Flatten([k \in 1..Len(ys) |->
                          _set_pixel(clip, ox + j - 1, ys[k], color)])])]),
     raised |-> FALSE]

----------------------------------------------------------------------------
(* Override resolution and the quadrant renderers. *)

\* an expiry test that already fails at the deadline: now >= expiry
ExpiredAtDeadline(ov, t) == ov.expiry # None /\ t >= ov.expiry[1]

\* `if expiry and now > expiry`: None and 0 are both falsy
Expired(ov, t) ==
    /\ ov.expiry # None
    /\ ov.expiry[1] # 0
    /\ t > ov.expiry[1]

\* _apply_override(ov, now): None, or Some(color)
_apply_override(ov, t) ==
    IF ov = None THEN None
    ELSE IF Expired(ov[1], t) THEN None
    ELSE IF ov[1].mode = "blink" THEN Some(blink(ov[1].color, t, DefaultPeriod))
    ELSE IF ov[1].mode = "pulse" THEN Some(pulse(ov[1].color, t))
    ELSE Some(ov[1].color)

\* overrides.get(q)
OvGet(ovs, q) == IF q \in DOMAIN ovs THEN Some(ovs[q]) ELSE None

\* a _render_pi whose warn test comes last and overwrites the crit colour
PiColorWarnLast(data, t) ==
    LET temp == Get(data, "temp", 0)
        load == Get(data, "load", 0)
        disk == Get(data, "disk", 0)
        base == <<0, (255 * Min(temp, 80)) \div 80, 0>>
        crit == IF temp > CritTempC \/ disk > CritDiskPct
                THEN pulse(CritColor, t) ELSE base
    IN  IF load > WarnLoad \/ disk > WarnDiskPct
        THEN blink(WarnColor, t, DefaultPeriod) ELSE crit

\* the metric-derived colour of _render_pi
PiColor(data, t) ==
    LET temp == Get(data, "temp", 0)
        load == Get(data, "load", 0)
        disk == Get(data, "disk", 0)
        base == <<0, (255 * Min(temp, 80)) \div 80, 0>>
        warned == IF load > WarnLoad \/ disk > WarnDiskPct
                  THEN blink(WarnColor, t, DefaultPeriod) ELSE base
    IN  IF temp > CritTempC \/ disk > CritDiskPct
        THEN pulse(CritColor, t) ELSE warned

_render_pi(clip, data, ov, t) ==
    LET color == _apply_override(ov, t)
    IN  _fill_quad(clip, 0, 0, IF color = None THEN PiColor(data, t) ELSE color[1])

\* the metric-derived colour of _render_tor
TorColor(data, t) ==
    IF Get(data, "active", FALSE) THEN TorOnColor ELSE blink(Red, t, FastPeriod)

_render_tor(clip, data, ov, t) ==
    LET color == _apply_override(ov, t)
    IN  _fill_quad(clip, 4, 0, IF color = None THEN TorColor(data, t) ELSE color[1])

\* a _render_ap that plots the client marks over an override too
RenderApAlwaysMarks(clip, data, ov, t) ==
    LET color == _apply_override(ov, t)
        marks == Flatten([i \in 1..Max(0, Min(Get(data, "clients", 0), 4)) |->
                     _set_pixel(clip, 0 + i - 1, 4 + i - 1, White)])
    IN  IF color # None
        THEN [calls |-> _fill_quad(clip, 0, 4, color[1]).calls \o marks, raised |-> FALSE]
        ELSE [calls |-> _fill_quad(clip, 0, 4, ApOnColor).calls \o marks, raised |-> FALSE]

\* a _render_ap that plots one mark per client without the cap of four
RenderApUncapped(clip, data, ov, t) ==
    LET color == _apply_override(ov, t)
    IN  IF color # None THEN _fill_quad(clip, 0, 4, color[1])
        ELSE IF Get(data, "active", FALSE)
        THEN [calls |-> _fill_quad(clip, 0, 4, ApOnColor).calls \o
                        Flatten([i \in 1..Get(data, "clients", 0) |->
                            _set_pixel(clip, 0 + i - 1, 4 + i - 1, White)]),
              raised |-> FALSE]
        ELSE _fill_quad(clip, 0, 4, blink(Red, t, FastPeriod))

_render_ap(clip, data, ov, t) ==
    LET color == _apply_override(ov, t)
    IN  IF color # None THEN _fill_quad(clip, 0, 4, color[1])
        ELSE IF Get(data, "active", FALSE)
        THEN LET clients == Get(data, "clients", 0)
             IN  [calls |-> _fill_quad(clip, 0, 4, ApOnColor).calls \o
                            Flatten([i \in 1..Max(0, Min(clients, 4)) |->
                                _set_pixel(clip, 0 + i - 1, 4 + i - 1, White)]),
                  raised |-> FALSE]
        ELSE _fill_quad(clip, 0, 4, blink(Red, t, FastPeriod))

_render_traffic(clip, data, ov, t) ==
    LET color == _apply_override(ov, t)
    IN  IF color = None
        THEN _fill_rows(clip, 4, 4, Get(data, "level", 0), OkColor)
        ELSE _fill_quad(clip, 4, 4, color[1])

\* the renderer _render calls for quadrant q
RenderQuadrant(q, clip, st, ovs, t) ==
    CASE q = "pi" -> _render_pi(clip, st.pi, OvGet(ovs, "pi"), t)
      [] q = "tor" -> _render_tor(clip, st.tor, OvGet(ovs, "tor"), t)
      [] q = "ap" -> _render_ap(clip, st.ap, OvGet(ovs, "ap"), t)
      [] OTHER -> _render_traffic(clip, st.traffic, OvGet(ovs, "traffic"), t)

----------------------------------------------------------------------------
(* The sink: self.uh. *)

\* The sink is opaque (DummyUnicorn keeps no pixels): the model keeps the calls
\* it received.  An entry is one clear(), one show(), or the set_pixel calls of
\* one quadrant renderer; `by` is the caller, "render" or "stop".
SinkOp(op, by, calls) == [op |-> op, by |-> by, calls |-> calls]

\* the log after one more entry, cut to its last SinkTail entries
Logged(log, entry) ==
    LET all == Append(log, entry)
    IN  IF Len(all) > SinkTail THEN SubSeq(all, Len(all) - SinkTail + 1, Len(all)) ELSE all

----------------------------------------------------------------------------
(* Traffic bucketing. *)

\* a bucketing that compares with < instead of <=
ReadLevelStrict(bs, s1, s2) ==
    LET delta == (s2[1] - s1[1]) + (s2[2] - s1[2])
        hits == {i \in 1..Len(bs) : delta * 2 < bs[i] * 25}
    IN  IF hits = {} THEN Len(bs) + 1
        ELSE CHOOSE i \in hits : \A j \in hits : i <= j

\* _read_traffic_level with the two byte samples s1 = (rx1, tx1), s2 = (rx2, tx2).
\* kbps = delta * 8 / 1000 / 0.1 = delta * 2 / 25, so kbps <= b iff delta * 2 <= b * 25
\* (the double-precision quotient agrees with this at every integer boundary).
_read_traffic_level(bs, s1, s2) ==
    LET delta == (s2[1] - s1[1]) + (s2[2] - s1[2])
        hits == {i \in 1..Len(bs) : delta * 2 <= bs[i] * 25}
    IN  IF hits = {} THEN Len(bs) + 1
        ELSE CHOOSE i \in hits : \A j \in hits : i <= j

----------------------------------------------------------------------------
(* Threads, callers and the initial state. *)

\* time.time() at construction: a whole number of seconds
T0 == 2 * DefaultPeriod

NoOverrides == [q \in {} |-> [color |-> Off, mode |-> "solid", expiry |-> None]]

InitialTags == [q \in Quadrants |-> 0]

\* a threading.Thread object: pc "created" until its start()
NewThread(kind) ==
    [kind |-> kind, pc |-> "created", t |-> 0, st |-> InitialState,
     ovs |-> NoOverrides, tags |-> InitialTags, cyc |-> 0, iface |-> "",
     failed |-> "none"]

\* a thread whose call (_poll, or one frame of _render_loop) has returned:
\* its locals are gone
Returned(th, pc) == [NewThread(th.kind) EXCEPT !.pc = pc]

IdleCaller ==
    [pc |-> "idle", q |-> "", color |-> Off, mode |-> "", persist |-> FALSE,
     duration |-> 0, jp |-> None, jr |-> None, clean |-> FALSE, out |-> FALSE]

\* the threads that call the public API
Callers == {"main", "other"}

Alive(th) == th.pc \notin {"created", "done", "crashed"}

NoHistory ==
    [cycles |-> 0, noop |-> FALSE, quiet |-> FALSE, joined |-> FALSE,
     pub |-> InitialTags, last |-> NoOverrides, op |-> "",
     lapsed |-> [q \in Quadrants |-> 0]]

\* a probe for the high-resolution driver first
InitDeviceHdFirst(kind, std, hdmod) ==
    LET first == IF kind \in {"auto", "unicorn_hat_hd"} /\ hdmod THEN "unicornhathd" ELSE ""
        second == IF first = "" /\ kind \in {"auto", "unicorn_hat"} /\ std
                  THEN "unicornhat" ELSE first
    IN  [hd |-> first = "unicornhathd",
         uh |-> IF second = "" THEN "DummyUnicorn" ELSE second]

\* _init_device with config.device = kind; std and hdmod say whether
\* `import unicornhat` and `import unicornhathd` succeed
_init_device(kind, std, hdmod) ==
    LET first == IF kind \in {"auto", "unicorn_hat"} /\ std THEN "unicornhat" ELSE ""
        second == IF first = "" /\ kind \in {"auto", "unicorn_hat_hd"} /\ hdmod
                  THEN "unicornhathd" ELSE first
    IN  [hd |-> second = "unicornhathd" /\ first = "",
         uh |-> IF second = "" THEN "DummyUnicorn" ELSE second]

\* what construction found and chose
Probed(kind, std, hdmod) ==
    [kind |-> kind, std |-> std, hdmod |-> hdmod, uh |-> _init_device(kind, std, hdmod).uh]

\* StatusMatrix.__init__ after _init_device: lines 62-70
InitController ==
    /\ running = FALSE
    /\ lock = None
    /\ state = InitialState
    /\ overrides = NoOverrides
    /\ pollAttr = None
    /\ renderAttr = None
    /\ threads = <<>>
    /\ callers = [c \in Callers |-> IdleCaller]
    /\ sinkLog = <<>>
    /\ now = T0
    /\ hist = NoHistory

\* StatusMatrix.__init__ with no hardware present (DummyUnicorn)
InitCommon ==
    /\ InitController
    /\ device = Probed("auto", FALSE, FALSE)
    /\ hd = _init_device("auto", FALSE, FALSE).hd

Init ==
    /\ InitCommon
    /\ buckets = DefaultBuckets
    /\ tIn = [s1 |-> <<0, 0>>, s2 |-> <<0, 0>>]
    /\ tOut = None

Me(c) == <<"caller", c>>
Th(i) == <<"thread", i>>

InStart(c) == callers[c].pc \in {"start_set", "start_mkpoll", "start_mkrender",
                                 "start_poll", "start_render"}
InStop(c) == callers[c].pc \in {"stop_read", "stop_joinpoll", "stop_joinrender",
                                "stop_clear", "stop_show"}

----------------------------------------------------------------------------
(* start() *)

\* a start() that does not look at self.running
StartGuardIgnored(isRunning) == FALSE

\* line 110: `if self.running: return`
StartGuard(isRunning) == isRunning

StartCall(c) ==
    /\ callers[c].pc = "idle"
    /\ IF StartGuard(running)
       THEN /\ hist' = [hist EXCEPT !.noop = TRUE, !.quiet = FALSE, !.joined = FALSE]
            /\ callers' = [d \in Callers |-> [callers[d] EXCEPT !.clean = FALSE]]
       ELSE /\ hist' = [hist EXCEPT !.quiet = FALSE, !.joined = FALSE]
            /\ callers' = [d \in Callers |->
                             [callers[d] EXCEPT !.clean = FALSE,
                                !.pc = IF d = c THEN "start_set" ELSE @]]
    /\ UNCHANGED <<running, lock, state, overrides, pollAttr, renderAttr, threads,
                   sinkLog, now, buckets, hd, device, tIn, tOut>>

\* line 112
StartSetRunning(c) ==
    /\ callers[c].pc = "start_set"
    /\ running' = TRUE
    /\ callers' = [callers EXCEPT ![c].pc = "start_mkpoll"]
    /\ UNCHANGED <<lock, state, overrides, pollAttr, renderAttr, threads,
                   sinkLog, now, buckets, hd, device, hist, tIn, tOut>>

\* line 113.  `room` is the number of Thread objects the model has room for.
StartMakePoll(c, room) ==
    /\ callers[c].pc = "start_mkpoll"
    /\ Len(threads) + 2 <= room
    /\ threads' = Append(threads, NewThread("poll"))
    /\ pollAttr' = Some(Len(threads) + 1)
    /\ callers' = [callers EXCEPT ![c].pc = "start_mkrender"]
    /\ UNCHANGED <<running, lock, state, overrides, renderAttr,
                   sinkLog, now, buckets, hd, device, hist, tIn, tOut>>

\* line 114
StartMakeRender(c) ==
    /\ callers[c].pc = "start_mkrender"
    /\ threads' = Append(threads, NewThread("render"))
    /\ renderAttr' = Some(Len(threads) + 1)
    /\ callers' = [callers EXCEPT ![c].pc = "start_poll"]
    /\ UNCHANGED <<running, lock, state, overrides, pollAttr,
                   sinkLog, now, buckets, hd, device, hist, tIn, tOut>>

\* line 115: Thread.start() raises RuntimeError on a thread already started
StartPollThread(c) ==
    /\ callers[c].pc = "start_poll"
    /\ LET i == pollAttr[1]
       IN  IF threads[i].pc = "created"
           THEN /\ threads' = [threads EXCEPT ![i].pc = "top"]
                /\ callers' = [callers EXCEPT ![c].pc = "start_render"]
           ELSE /\ callers' = [callers EXCEPT ![c] = IdleCaller]
                /\ UNCHANGED threads
    /\ UNCHANGED <<running, lock, state, overrides, pollAttr, renderAttr,
                   sinkLog, now, buckets, hd, device, hist, tIn, tOut>>

\* line 116
StartRenderThread(c) ==
    /\ callers[c].pc = "start_render"
    /\ LET i == renderAttr[1]
       IN  IF threads[i].pc = "created"
           THEN threads' = [threads EXCEPT ![i].pc = "top"]
           ELSE UNCHANGED threads
    /\ callers' = [callers EXCEPT ![c] = IdleCaller]
    /\ UNCHANGED <<running, lock, state, overrides, pollAttr, renderAttr,
                   sinkLog, now, buckets, hd, device, hist, tIn, tOut>>

----------------------------------------------------------------------------
(* stop() and clear() *)

\* line 119.  hist.quiet follows a stop() that ran alone: no other call to
\* start() or stop() in flight when it began or made before it returned.
\* hist.joined says that every loop had ended when that stop() cleared.
StopCall(c) ==
    /\ callers[c].pc = "idle"
    /\ running' = FALSE
    /\ callers' = [d \in Callers |->
                     IF d = c
                     THEN [callers[c] EXCEPT
                             !.pc = "stop_read",
                             !.clean = \A e \in Callers \ {c} : ~InStart(e) /\ ~InStop(e)]
                     ELSE [callers[d] EXCEPT !.clean = FALSE]]
    /\ hist' = [hist EXCEPT !.quiet = FALSE, !.joined = FALSE]
    /\ UNCHANGED <<lock, state, overrides, pollAttr, renderAttr, threads,
                   sinkLog, now, buckets, hd, device, tIn, tOut>>

\* line 120: both getattr(self, ..., None) of the tuple
StopRead(c) ==
    /\ callers[c].pc = "stop_read"
    /\ callers' = [callers EXCEPT ![c].pc = "stop_joinpoll",
                                  ![c].jp = pollAttr, ![c].jr = renderAttr]
    /\ UNCHANGED <<running, lock, state, overrides, pollAttr, renderAttr, threads,
                   sinkLog, now, buckets, hd, device, hist, tIn, tOut>>

\* lines 121-122: `if t: t.join(timeout=1)`.  join raises RuntimeError on a
\* thread not yet started; otherwise it returns when the thread has ended, and
\* also after one second while the thread is still alive, so it always returns.
Join(c, ref, next) ==
    IF ref = None
    THEN callers' = [callers EXCEPT ![c].pc = next]
    ELSE IF threads[ref[1]].pc = "created"
    THEN callers' = [callers EXCEPT ![c] = IdleCaller]
    ELSE callers' = [callers EXCEPT ![c].pc = next]

StopJoinPoll(c) ==
    /\ callers[c].pc = "stop_joinpoll"
    /\ Join(c, callers[c].jp, "stop_joinrender")
    /\ UNCHANGED <<running, lock, state, overrides, pollAttr, renderAttr, threads,
                   sinkLog, now, buckets, hd, device, hist, tIn, tOut>>

StopJoinRender(c) ==
    /\ callers[c].pc = "stop_joinrender"
    /\ Join(c, callers[c].jr, "stop_clear")
    /\ UNCHANGED <<running, lock, state, overrides, pollAttr, renderAttr, threads,
                   sinkLog, now, buckets, hd, device, hist, tIn, tOut>>

\* line 126
StopClear(c) ==
    /\ callers[c].pc = "stop_clear"
    /\ sinkLog' = Logged(sinkLog, SinkOp("clear", "stop", <<>>))
    /\ callers' = [callers EXCEPT ![c].pc = "stop_show",
                                  ![c].out = \A i \in 1..Len(threads) : ~Alive(threads[i])]
    /\ UNCHANGED <<running, lock, state, overrides, pollAttr, renderAttr, threads,
                   now, buckets, hd, device, hist, tIn, tOut>>

\* a clear() that does not flush: uh.clear() with no uh.show()
StopFlushMissing == SinkOp("clear", "stop", <<>>)

\* line 127: what clear() sends the sink after uh.clear()
StopFlush == SinkOp("show", "stop", <<>>)

\* line 127, and stop() returns
StopShow(c) ==
    /\ callers[c].pc = "stop_show"
    /\ sinkLog' = Logged(sinkLog, StopFlush)
    /\ callers' = [callers EXCEPT ![c] = IdleCaller]
    /\ hist' = [hist EXCEPT !.quiet = callers[c].clean,
                            !.joined = callers[c].clean /\ callers[c].out]
    /\ UNCHANGED <<running, lock, state, overrides, pollAttr, renderAttr, threads,
                   now, buckets, hd, device, tIn, tOut>>

----------------------------------------------------------------------------
(* set_override() and clear_override() *)

\* a lock that excludes nobody
MayAcquireAnyway(holder) == TRUE

\* `with self.lock` (lines 130, 135, 165, 233): whether a thread may enter
MayAcquire(holder) == holder = None

\* line 130: `with self.lock` of set_override(q, color, mode, persist, duration)
SetOverrideCall(c, q, color, mode, persist, duration) ==
    /\ callers[c].pc = "idle"
    /\ MayAcquire(lock)
    /\ lock' = Some(Me(c))
    /\ callers' = [callers EXCEPT ![c].pc = "set_body", ![c].q = q, ![c].color = color,
                                  ![c].mode = mode, ![c].persist = persist,
                                  ![c].duration = duration]
    /\ UNCHANGED <<running, state, overrides, pollAttr, renderAttr, threads,
                   sinkLog, now, buckets, hd, device, hist, tIn, tOut>>

\* an expiry counted from construction instead of from the call
ExpiryFromStart(persist, t, duration) == IF persist THEN None ELSE Some(T0 + duration)

\* line 131
Expiry(persist, t, duration) == IF persist THEN None ELSE Some(t + duration)

\* line 132: self.overrides[q] = {...}
Stored(ovs, q, entry) == [k \in (DOMAIN ovs) \cup {q} |-> IF k = q THEN entry ELSE ovs[k]]

\* lines 131-132 and the release of the lock.  hist.last records what the call
\* asked for: the colour and mode given, and no expiry or the time of the call
\* plus the duration; hist.op says what the call found in the map.
SetOverrideBody(c) ==
    /\ callers[c].pc = "set_body"
    /\ LET a == callers[c]
       IN  /\ overrides' = Stored(overrides, a.q,
                                  [color |-> a.color, mode |-> a.mode,
                                   expiry |-> Expiry(a.persist, now, a.duration)])
           /\ LET asked == [color |-> a.color, mode |-> a.mode,
                             expiry |-> IF a.persist THEN None ELSE Some(now + a.duration)]
              IN  hist' = [hist EXCEPT
                     !.last = [k \in (DOMAIN @) \cup {a.q} |-> IF k = a.q THEN asked ELSE @[k]],
                     !.op = IF a.q \notin DOMAIN overrides THEN "set"
                            ELSE IF Expired(overrides[a.q], now) THEN "set_over_expired"
                            ELSE "set_over",
                     !.lapsed = [@ EXCEPT ![a.q] = 0]]
    /\ lock' = None
    /\ callers' = [callers EXCEPT ![c] = IdleCaller]
    /\ UNCHANGED <<running, state, pollAttr, renderAttr, threads,
                   sinkLog, now, buckets, hd, device, tIn, tOut>>

\* line 135: `with self.lock` of clear_override(q)
ClearOverrideCall(c, q) ==
    /\ callers[c].pc = "idle"
    /\ MayAcquire(lock)
    /\ lock' = Some(Me(c))
    /\ callers' = [callers EXCEPT ![c].pc = "clear_body", ![c].q = q]
    /\ UNCHANGED <<running, state, overrides, pollAttr, renderAttr, threads,
                   sinkLog, now, buckets, hd, device, hist, tIn, tOut>>

\* a clear_override that empties the map: self.overrides.clear()
PoppedAll(ovs, q) == NoOverrides

\* line 136: self.overrides.pop(q, None)
Popped(ovs, q) == [k \in (DOMAIN ovs) \ {q} |-> ovs[k]]

\* line 136 and the release of the lock
ClearOverrideBody(c) ==
    /\ callers[c].pc = "clear_body"
    /\ overrides' = Popped(overrides, callers[c].q)
    /\ hist' = [hist EXCEPT
          !.last = [k \in (DOMAIN @) \ {callers[c].q} |-> @[k]],
          !.op = IF callers[c].q \in DOMAIN overrides THEN "clear" ELSE "clear_absent"]
    /\ lock' = None
    /\ callers' = [callers EXCEPT ![c] = IdleCaller]
    /\ UNCHANGED <<running, state, pollAttr, renderAttr, threads,
                   sinkLog, now, buckets, hd, device, tIn, tOut>>

----------------------------------------------------------------------------
(* The sampler: _poll_loop and _poll. *)

IsPoll(i) == i \in 1..Len(threads) /\ threads[i].kind = "poll"
IsRender(i) == i \in 1..Len(threads) /\ threads[i].kind = "render"

\* what the collaborators answer when they answer
Healthy == [temp |-> 40, load |-> 1, disk |-> 10, tor |-> TRUE, ap |-> TRUE,
            clients |-> 2, iface |-> "eth0"]

\* the sub-queries of _poll up to the traffic measurement, in order
QuerySteps == <<"temp", "load", "disk", "tor", "apsvc", "clients", "iface">>
Failures == {"none"} \cup {QuerySteps[k] : k \in 1..Len(QuerySteps)}

\* the sub-queries _poll makes with no try/except of their own: lines 155-156
Unguarded == {"load", "disk"}

\* whether _poll raises when sub-query `failed` fails
PollRaises(failed) == failed \in Unguarded

\* lines 153-163 with sub-query `failed` failing: pi, tor, ap and the interface
Sampled(failed) ==
    [pi |-> [temp |-> IF failed = "temp" THEN 0 ELSE Healthy.temp,
             load |-> Healthy.load, disk |-> Healthy.disk],
     tor |-> [active |-> IF failed = "tor" THEN FALSE ELSE Healthy.tor],
     ap |-> [active |-> IF failed = "apsvc" THEN FALSE ELSE Healthy.ap,
             clients |-> IF failed = "clients" THEN 0 ELSE Healthy.clients],
     iface |-> IF failed = "iface" THEN "wlan0" ELSE Healthy.iface]

\* a loop that does not look at the flag: `while True`
LoopForever(isRunning) == TRUE

\* lines 143 and 231: `while self.running`
LoopContinues(isRunning) == isRunning

\* line 143: `while self.running`, and line 144
PollTop(i) ==
    /\ IsPoll(i)
    /\ threads[i].pc = "top"
    /\ IF LoopContinues(running)
       THEN /\ hist.cycles < MaxCycles
            /\ threads' = [threads EXCEPT ![i].pc = "query", ![i].cyc = hist.cycles + 1]
            /\ hist' = [hist EXCEPT !.cycles = @ + 1]
       ELSE /\ threads' = [threads EXCEPT ![i].pc = "done"]
            /\ UNCHANGED hist
    /\ UNCHANGED <<running, lock, state, overrides, pollAttr, renderAttr, callers,
                   sinkLog, now, buckets, hd, device, tIn, tOut>>

\* lines 153-163 and the first byte sample of line 216; an exception leaves
\* _poll for the except clause of line 147, and the loop sleeps (lines 149-150)
\* until its next `while self.running`
PollQuery(i, failed) ==
    /\ IsPoll(i)
    /\ threads[i].pc = "query"
    /\ IF PollRaises(failed)
       THEN threads' = [threads EXCEPT ![i] = Returned(@, "top")]
       ELSE /\ LET r == Sampled(failed)
               IN  threads' = [threads EXCEPT
                     ![i].pc = "measure", ![i].failed = failed, ![i].iface = r.iface,
                     ![i].st = [pi |-> r.pi, tor |-> r.tor, ap |-> r.ap,
                                traffic |-> @.traffic]]
    /\ UNCHANGED <<running, lock, state, overrides, pollAttr, renderAttr, callers,
                   sinkLog, now, buckets, hd, device, hist, tIn, tOut>>

\* lines 217-224: the 100 ms sleep is over, the second sample is read and the
\* level computed; a failed read of the counters is the sample (0, 0)
PollMeasure(i, s1, s2, bytesFail) ==
    /\ IsPoll(i)
    /\ threads[i].pc = "measure"
    /\ bytesFail => threads[i].failed = "none"
    /\ LET a == IF bytesFail THEN <<0, 0>> ELSE s1
       IN  threads' = [threads EXCEPT
              ![i].pc = "acquire",
              ![i].failed = IF bytesFail THEN "bytes" ELSE @,
              ![i].st = [@ EXCEPT !.traffic = [level |-> _read_traffic_level(buckets, a, s2)]]]
    /\ UNCHANGED <<running, lock, state, overrides, pollAttr, renderAttr, callers,
                   sinkLog, now, buckets, hd, device, hist, tIn, tOut>>

\* line 165
PollAcquire(i) ==
    /\ IsPoll(i)
    /\ threads[i].pc = "acquire"
    /\ MayAcquire(lock)
    /\ lock' = Some(Th(i))
    /\ threads' = [threads EXCEPT ![i].pc = "pub_pi"]
    /\ UNCHANGED <<running, state, overrides, pollAttr, renderAttr, callers,
                   sinkLog, now, buckets, hd, device, hist, tIn, tOut>>

\* lines 166-169, one assignment each; the last leaves the with block, and the
\* loop sleeps (lines 149-150) until its next `while self.running`
PollPublish(i, q, next) ==
    /\ IsPoll(i)
    /\ threads[i].pc = "pub_" \o q
    /\ state' = [state EXCEPT ![q] = threads[i].st[q]]
    /\ hist' = [hist EXCEPT !.pub[q] = threads[i].cyc]
    /\ IF next = "top"
       THEN /\ lock' = None
            /\ threads' = [threads EXCEPT ![i] = Returned(@, "top")]
       ELSE /\ threads' = [threads EXCEPT ![i].pc = "pub_" \o next]
            /\ UNCHANGED lock
    /\ UNCHANGED <<running, overrides, pollAttr, renderAttr, callers,
                   sinkLog, now, buckets, hd, device, tIn, tOut>>

----------------------------------------------------------------------------
(* The renderer: _render_loop and _render. *)

\* line 231: `while self.running`, and line 232
RenderTop(i) ==
    /\ IsRender(i)
    /\ threads[i].pc = "top"
    /\ IF LoopContinues(running)
       THEN threads' = [threads EXCEPT ![i].pc = "acquire", ![i].t = now]
       ELSE threads' = [threads EXCEPT ![i].pc = "done"]
    /\ UNCHANGED <<running, lock, state, overrides, pollAttr, renderAttr, callers,
                   sinkLog, now, buckets, hd, device, hist, tIn, tOut>>

\* line 233
RenderAcquire(i) ==
    /\ IsRender(i)
    /\ threads[i].pc = "acquire"
    /\ MayAcquire(lock)
    /\ lock' = Some(Th(i))
    /\ threads' = [threads EXCEPT ![i].pc = "copy"]
    /\ UNCHANGED <<running, state, overrides, pollAttr, renderAttr, callers,
                   sinkLog, now, buckets, hd, device, hist, tIn, tOut>>

\* a renderer that keeps the lock through its frame
ReleasedLate(holder) == holder

\* line 235 ends the with block: the holder of the lock after it
Released(holder) == None

\* a copy that drops the entries expired at the frame-start time from the map
CopyPrunes(ovs, t) == [q \in {k \in DOMAIN ovs : ~Expired(ovs[k], t)} |-> ovs[q]]

\* line 235: self.overrides.copy() leaves self.overrides as it was
AfterCopy(ovs, t) == ovs

\* lines 234-235 and the release of the lock.  hist.lapsed counts, up to two,
\* the frames since the last set_override(q) whose copy held an entry for q
\* expired at their start time.
RenderCopy(i) ==
    /\ IsRender(i)
    /\ threads[i].pc = "copy"
    /\ threads' = [threads EXCEPT ![i].pc = "clear", ![i].st = state,
                                  ![i].ovs = overrides, ![i].tags = hist.pub]
    /\ overrides' = AfterCopy(overrides, threads[i].t)
    /\ hist' = [hist EXCEPT !.lapsed =
                    [q \in Quadrants |->
                        IF q \in DOMAIN overrides /\ Expired(overrides[q], threads[i].t)
                        THEN Min(@[q] + 1, 2) ELSE @[q]]]
    /\ lock' = Released(lock)
    /\ UNCHANGED <<running, state, pollAttr, renderAttr, callers,
                   sinkLog, now, buckets, hd, device, tIn, tOut>>

\* line 242
RenderClear(i) ==
    /\ IsRender(i)
    /\ threads[i].pc = "clear"
    /\ sinkLog' = Logged(sinkLog, SinkOp("clear", "render", <<>>))
    /\ threads' = [threads EXCEPT ![i].pc = "pi"]
    /\ UNCHANGED <<running, lock, state, overrides, pollAttr, renderAttr, callers,
                   now, buckets, hd, device, hist, tIn, tOut>>

\* a _render that paints ap before tor
AfterQuadrantApFirst(q) ==
    CASE q = "pi" -> "ap" [] q = "ap" -> "tor" [] q = "tor" -> "traffic" [] OTHER -> "show"

\* the order of lines 243-246
AfterQuadrant(q) ==
    CASE q = "pi" -> "tor" [] q = "tor" -> "ap" [] q = "ap" -> "traffic" [] OTHER -> "show"

\* lines 231-239: _render_loop has no try/except around a frame
RenderCatches == FALSE

\* lines 243-246, one quadrant renderer each.  _render_loop has no try/except:
\* an exception ends the thread.
RenderPaint(i, q) ==
    /\ IsRender(i)
    /\ threads[i].pc = q
    /\ LET r == RenderQuadrant(q, hd, threads[i].st, threads[i].ovs, threads[i].t)
       IN  IF r.raised
           THEN /\ threads' = [threads EXCEPT
                      ![i] = Returned(@, IF RenderCatches THEN "top" ELSE "crashed")]
                /\ UNCHANGED sinkLog
           ELSE /\ threads' = [threads EXCEPT ![i].pc = AfterQuadrant(q)]
                /\ sinkLog' = IF r.calls = <<>> THEN sinkLog
                              ELSE Logged(sinkLog, SinkOp("set_pixel", "render", r.calls))
    /\ UNCHANGED <<running, lock, state, overrides, pollAttr, renderAttr, callers,
                   now, buckets, hd, device, hist, tIn, tOut>>

\* line 237, and the loop sleeps (lines 238-239) until its next
\* `while self.running`
RenderShow(i) ==
    /\ IsRender(i)
    /\ threads[i].pc = "show"
    /\ sinkLog' = Logged(sinkLog, SinkOp("show", "render", <<>>))
    /\ threads' = [threads EXCEPT ![i] = Returned(@, "top")]
    /\ UNCHANGED <<running, lock, state, overrides, pollAttr, renderAttr, callers,
                   now, buckets, hd, device, hist, tIn, tOut>>

----------------------------------------------------------------------------
(* Time, and the specification. *)

Tick ==
    /\ now < T0 + MaxTicks
    /\ now' = now + 1
    /\ UNCHANGED <<running, lock, state, overrides, pollAttr, renderAttr, threads,
                   callers, sinkLog, buckets, hd, device, hist, tIn, tOut>>

\* byte-counter samples (rx, tx) of the full system
Samples == {<<0, 0>>, <<16000, 16000>>}

\* start() called by the threads cs
Starting(cs, room) ==
    \E c \in cs :
        \/ StartCall(c)
        \/ StartSetRunning(c)
        \/ StartMakePoll(c, room)
        \/ StartMakeRender(c)
        \/ StartPollThread(c)
        \/ StartRenderThread(c)

\* stop() called by the threads cs
Stopping(cs) ==
    \E c \in cs :
        \/ StopCall(c)
        \/ StopRead(c)
        \/ StopJoinPoll(c)
        \/ StopJoinRender(c)
        \/ StopClear(c)
        \/ StopShow(c)

\* the sampler threads among the Thread objects 1..room; the sub-query that
\* fails in a cycle is drawn from fs, the byte-counter samples from ss
Sampler(room, fs, ss) ==
    \E i \in 1..room :
        \/ PollTop(i)
        \/ \E f \in fs : PollQuery(i, f)
        \/ \E s1 \in ss, s2 \in ss, bf \in BOOLEAN : PollMeasure(i, s1, s2, bf)
        \/ PollAcquire(i)
        \/ PollPublish(i, "pi", "tor")
        \/ PollPublish(i, "tor", "ap")
        \/ PollPublish(i, "ap", "traffic")
        \/ PollPublish(i, "traffic", "top")

\* the render threads among the Thread objects 1..room
Renderer(room) ==
    \E i \in 1..room :
        \/ RenderTop(i)
        \/ RenderAcquire(i)
        \/ RenderCopy(i)
        \/ RenderClear(i)
        \/ \E q \in Quadrants : RenderPaint(i, q)
        \/ RenderShow(i)

\* set_override() and clear_override() called by the threads cs, with the
\* arguments drawn from the given sets
Overrides(cs, qs, colors, modes, persists, durations) ==
    \E c \in cs :
        \/ \E q \in qs, col \in colors, m \in modes, p \in persists, d \in durations :
              SetOverrideCall(c, q, col, m, p, d)
        \/ SetOverrideBody(c)
        \/ \E q \in qs : ClearOverrideCall(c, q)
        \/ ClearOverrideBody(c)

\* The whole system: one API caller, one pair of loops.
Next ==
    \/ Starting({"main"}, 2)
    \/ Stopping({"main"})
    \/ Sampler(2, {"none", "load"}, Samples)
    \/ Renderer(2)
    \/ Overrides({"main"}, {"tor"}, {<<1, 2, 3>>, <<1, 2>>}, {"solid"}, BOOLEAN, {1})
    \/ Tick

Spec == Init /\ [][Next]_vars

\* Lifecycle and the two loops, with no override and the clock standing still.
NextLifecycle ==
    \/ Starting({"main"}, 2)
    \/ Stopping({"main"})
    \/ Sampler(2, {"none", "load"}, Samples)
    \/ Renderer(2)

SpecLifecycle == Init /\ [][NextLifecycle]_vars

\* the steps of a render thread other than its quadrant renderers
RenderMoves(room) ==
    \E i \in 1..room :
        RenderTop(i) \/ RenderAcquire(i) \/ RenderCopy(i) \/ RenderClear(i) \/ RenderShow(i)

\* a render thread is at one of lines 243-246: RenderPaint can happen
PaintEnabled == \E i \in 1..Len(threads) : IsRender(i) /\ threads[i].pc \in Quadrants

\* weak fairness of the quadrant renderers, with their enabling condition
\* written out
FairPaint ==
    \/ []<>(~PaintEnabled)
    \/ []<><<\E i \in 1..2, q \in Quadrants : RenderPaint(i, q)>>_vars

\* The same under fair scheduling: a loop thread that can take a step
\* eventually takes one.  The callers of start() and stop() are not forced.
SpecCancel ==
    /\ Init
    /\ [][NextLifecycle]_vars
    /\ WF_vars(Sampler(2, {"none", "load"}, Samples))
    /\ WF_vars(RenderMoves(2))
    /\ FairPaint

\* The shared state: both loops running, and two threads setting and clearing
\* overrides, with the clock standing still and no stop().
NextShared ==
    \/ Starting({"main"}, 2)
    \/ Sampler(2, {"none"}, Samples)
    \/ Renderer(2)
    \/ Overrides(Callers, {"tor"}, {<<1, 2, 3>>}, {"solid"}, BOOLEAN, {1})

SpecShared == Init /\ [][NextShared]_vars

\* Overrides on the display: the render loop, one thread setting and clearing
\* overrides of every mode, and the clock.
NextOverrides ==
    \/ Starting({"main"}, 2)
    \/ Renderer(2)
    \/ Overrides({"main"}, {"tor"}, {<<1, 2, 3>>}, {"solid", "blink", "pulse"}, BOOLEAN, {1})
    \/ Tick

SpecOverrides == Init /\ [][NextOverrides]_vars

\* The override map: two threads setting and clearing the overrides of two
\* quadrants, and the clock.
NextOverrideMap ==
    \/ Overrides(Callers, {"tor", "ap"}, {<<1, 2, 3>>, <<7, 7, 7>>}, {"solid"},
                 BOOLEAN, {0, 1})
    \/ Tick

SpecOverrideMap == Init /\ [][NextOverrideMap]_vars

\* Errors in the loops: a sub-query raising in the sampler, and an override
\* whose colour is not an (r, g, b) triple in the renderer.
NextErrors ==
    \/ Starting({"main"}, 2)
    \/ Sampler(2, {"none", "load"}, Samples)
    \/ Renderer(2)
    \/ Overrides({"main"}, {"tor"}, {<<1, 2, 3>>, <<1, 2>>}, {"solid"}, {TRUE}, {1})

SpecErrors == Init /\ [][NextErrors]_vars

\* The sampler alone, every sub-query failing in turn.
NextPoll ==
    \/ Starting({"main"}, 2)
    \/ Sampler(2, Failures, Samples)

SpecPoll == Init /\ [][NextPoll]_vars

\* _read_traffic_level as a function: every non-decreasing bucket list of at
\* most MaxBuckets thresholds, byte samples at and around every threshold.
Thresholds == {DefaultBuckets[k] : k \in 1..Len(DefaultBuckets)}

BucketLists ==
    UNION {{bs \in [1..n -> Thresholds] : \A k \in 1..(n - 1) : bs[k] <= bs[k + 1]} :
              n \in 0..MaxBuckets}

FirstSamples == {<<0, 0>>, <<100, 0>>}
SecondSamples == {<<rx, tx>> : rx \in {0, 800, 3200, 12800}, tx \in {0, 1}}

InitTraffic ==
    /\ InitCommon
    /\ buckets \in BucketLists
    /\ tIn \in [s1 : FirstSamples, s2 : SecondSamples]
    /\ tOut = None

\* lines 214-224: one call of _read_traffic_level
ReadTrafficLevel ==
    /\ tOut = None
    /\ tOut' = Some(_read_traffic_level(buckets, tIn.s1, tIn.s2))
    /\ UNCHANGED <<running, lock, state, overrides, pollAttr, renderAttr, threads,
                   callers, sinkLog, now, buckets, hd, device, hist, tIn>>

NextTraffic == ReadTrafficLevel

SpecTraffic == InitTraffic /\ [][NextTraffic]_vars

\* The quadrant renderers as functions: one renderer called, as the render
\* loop calls it, on the metrics and overrides drawn by the initial state, at the
\* times the clock reaches.
Paint(q) ==
    /\ LET r == RenderQuadrant(q, hd, state, overrides, now)
       IN  /\ ~r.raised
           /\ sinkLog' = IF r.calls = <<>> THEN sinkLog
                          ELSE Logged(sinkLog, SinkOp("set_pixel", "render", r.calls))
    /\ UNCHANGED <<running, lock, state, overrides, pollAttr, renderAttr, threads,
                   callers, now, buckets, hd, device, hist, tIn, tOut>>

\* an override that expired before T0
StaleOverride == [color |-> <<1, 2, 3>>, mode |-> "solid", expiry |-> Some(T0 - 1)]

\* the overrides map with entry e for quadrant q
Only(q, e) == [k \in {q} |-> e]

\* a controller whose snapshot is st and whose overrides are ovs, on the
\* no-op sink or on the high-resolution driver
InitPaint(st, ovs) ==
    /\ running = FALSE
    /\ lock = None
    /\ state = st
    /\ overrides = ovs
    /\ pollAttr = None
    /\ renderAttr = None
    /\ threads = <<>>
    /\ callers = [c \in Callers |-> IdleCaller]
    /\ sinkLog = <<>>
    /\ now = T0
    /\ hist = NoHistory
    /\ hd \in BOOLEAN
    /\ device = Probed("auto", FALSE, hd)
    /\ buckets = DefaultBuckets
    /\ tIn = [s1 |-> <<0, 0>>, s2 |-> <<0, 0>>]
    /\ tOut = None

\* _render_pi on every combination of temperatures, loads and disk fills
\* around the thresholds
PiInputs == [temp : {0, 40, 80, 81}, load : {1, 2, 3}, disk : {10, 85, 86, 95, 96}]

InitPi ==
    \E data \in PiInputs \cup {EmptyDict},
       ovs \in {NoOverrides, Only("pi", StaleOverride)} :
        InitPaint([InitialState EXCEPT !.pi = data], ovs)

NextPi == Paint("pi") \/ Tick

SpecPi == InitPi /\ [][NextPi]_vars

\* _render_traffic on the levels _read_traffic_level returns for bucket lists
\* of up to five thresholds, and on the initial level 0
BarLevels == 0..6

InitBars ==
    \E level \in BarLevels, ovs \in {NoOverrides, Only("traffic", StaleOverride)} :
        InitPaint([InitialState EXCEPT !.traffic = [level |-> level]], ovs)

NextBars == Paint("traffic") \/ Tick

SpecBars == InitBars /\ [][NextBars]_vars

\* start() and stop() from any of the callers, with room for the Thread objects
\* of two start() calls.  Of each loop only its `while self.running` test is
\* taken: a loop that passed the test is inside its iteration, one that failed
\* it has returned.
LoopTests(room) == \E i \in 1..room : PollTop(i) \/ RenderTop(i)

NextRestart ==
    \/ Starting(Callers, 4)
    \/ Stopping({"main"})
    \/ LoopTests(4)

SpecRestart == Init /\ [][NextRestart]_vars

\* Whole frames: the render loop beside the sampler that publishes new state,
\* a caller that sets and clears a blinking override, and the clock.
NextFrames ==
    \/ Starting({"main"}, 2)
    \/ Sampler(2, {"none"}, Samples)
    \/ Renderer(2)
    \/ Overrides({"main"}, {"ap"}, {<<1, 2, 3>>}, {"blink"}, {FALSE}, {1})
    \/ Tick

SpecFrames == Init /\ [][NextFrames]_vars

\* _render_ap over an access point up or down with zero to five clients, with
\* no override or an expired one.
ApInputs == [active : BOOLEAN, clients : 0..5]

InitAp ==
    \E data \in ApInputs \cup {EmptyDict},
       ovs \in {NoOverrides, Only("ap", StaleOverride)} :
        InitPaint([InitialState EXCEPT !.ap = data], ovs)

NextAp == Paint("ap") \/ Tick

SpecAp == InitAp /\ [][NextAp]_vars

\* Every renderer with an override on its quadrant, of each mode, persistent
\* or expiring at T0, over metrics that would draw something in every quadrant.
BusyState ==
    [pi |-> [temp |-> 81, load |-> 3, disk |-> 96], tor |-> [active |-> TRUE],
     ap |-> [active |-> TRUE, clients |-> 2], traffic |-> [level |-> 3]]

InitOverridden ==
    \E mode \in {"solid", "blink", "pulse"}, expiry \in {None, Some(T0)} :
        InitPaint(BusyState, [q \in Quadrants |->
                     [color |-> <<250, 100, 50>>, mode |-> mode, expiry |-> expiry]])

NextOverridden == (\E q \in Quadrants : Paint(q)) \/ Tick

SpecOverridden == InitOverridden /\ [][NextOverridden]_vars

\* The device: construction with every config.device and every combination of
\* importable drivers, then the render loop, and _set_pixel called with
\* coordinates inside and outside the 8x8 region.
DeviceKinds == {"auto", "unicorn_hat", "unicorn_hat_hd", "none"}
Coords == {-1, 7, 10}

InitDevice ==
    /\ InitController
    /\ \E kind \in DeviceKinds, std \in BOOLEAN, hdmod \in BOOLEAN :
          /\ device = Probed(kind, std, hdmod)
          /\ hd = _init_device(kind, std, hdmod).hd
    /\ buckets = DefaultBuckets
    /\ tIn = [s1 |-> <<0, 0>>, s2 |-> <<0, 0>>]
    /\ tOut = None

\* one call of _set_pixel(x, y, r, g, b), lines 328-333
SetPixelCall(x, y, color) ==
    /\ LET calls == _set_pixel(hd, x, y, color)
       IN  sinkLog' = IF calls = <<>> THEN sinkLog
                      ELSE Logged(sinkLog, SinkOp("set_pixel", "caller", calls))
    /\ UNCHANGED <<running, lock, state, overrides, pollAttr, renderAttr, threads,
                   callers, now, buckets, hd, device, hist, tIn, tOut>>

NextDevice ==
    \/ \E x \in Coords, y \in Coords : SetPixelCall(x, y, <<1, 2, 3>>)
    \/ Starting({"main"}, 2)
    \/ Renderer(2)

SpecDevice == InitDevice /\ [][NextDevice]_vars

----------------------------------------------------------------------------
(* Lifecycle claims. *)

StartPcs == {"start_set", "start_mkpoll", "start_mkrender", "start_poll", "start_render"}

\* C1: start() is idempotent while running.  A call of start() made while
\* self.running is true returns at once: the caller never gets past line 110,
\* and Thread objects are created, and threads started, only by a caller that
\* did get past it.  So a second start() spawns no second pair of loops.
C1_StartIdempotent ==
    [][/\ \A c \in Callers :
             (running /\ callers[c].pc = "idle") => callers'[c].pc \notin StartPcs
       /\ (threads' # threads /\ Len(threads') > Len(threads)) =>
             \E c \in Callers : callers[c].pc \in {"start_mkpoll", "start_mkrender"}
       /\ \A i \in 1..Len(threads) :
             (threads[i].pc = "created" /\ threads'[i].pc # "created") =>
                \E c \in Callers : callers[c].pc \in {"start_poll", "start_render"}
      ]_vars

\* start() was called while running and returned as a no-op: one sampler loop
\* and one render loop exist, both alive.
C1_Witness ==
    /\ hist.noop
    /\ running
    /\ callers["main"].pc = "idle"
    /\ Len(threads) = 2
    /\ \A i \in 1..Len(threads) : Alive(threads[i])

\* the last two operations the sink received are stop()'s clear() and show()
SinkClearedByStop ==
    /\ Len(sinkLog) >= 2
    /\ sinkLog[Len(sinkLog) - 1] = SinkOp("clear", "stop", <<>>)
    /\ sinkLog[Len(sinkLog)] = SinkOp("show", "stop", <<>>)

\* C2 as claimed: once a stop() has returned (and start() has not been called
\* since), the last sink operations are its clear() and show(); no render-loop
\* operation follows them.
C2_StopLeavesSinkCleared == hist.quiet => SinkClearedByStop

\* C2 amended: the same, when every loop had ended by the time stop() cleared
\* (no join timed out on a live loop).
C2_StopAfterJoinLeavesSinkCleared == (hist.quiet /\ hist.joined) => SinkClearedByStop

\* stop() has returned after both loops had run and ended, and the sink's last
\* operations are its clear() and show().
C2_Witness ==
    /\ hist.quiet
    /\ hist.joined
    /\ Len(threads) = 2
    /\ \A i \in 1..Len(threads) : threads[i].pc = "done"
    /\ SinkClearedByStop

----------------------------------------------------------------------------
(* Shared-state claims. *)

FramePcs == {"clear", "pi", "tor", "ap", "traffic", "show"}
PublishPcs == {"pub_pi", "pub_tor", "pub_ap", "pub_traffic"}

\* C6: the state a frame copied is never torn.  The four sub-records of its
\* metrics were all published by one poll cycle (or are all the initial ones),
\* and the overrides it copied are, entry for entry, what the most recent
\* completed set_override and clear_override calls left: each entry is the whole
\* {color, mode, expiry} one call asked for.
C6_SnapshotNotTorn ==
    /\ [](\A i \in 1..Len(threads) :
            (IsRender(i) /\ threads[i].pc \in FramePcs) =>
                \A q1 \in Quadrants, q2 \in Quadrants :
                    threads[i].tags[q1] = threads[i].tags[q2])
    /\ [][\A i \in 1..Len(threads) :
            (IsRender(i) /\ threads[i].pc = "copy" /\ threads'[i].pc = "clear") =>
                /\ threads'[i].ovs = hist.last
                /\ threads'[i].st = state
         ]_vars

\* a frame holds a copy made after a second poll cycle published and after one
\* override was set over another
C6_Witness ==
    \E i \in 1..Len(threads) :
        /\ IsRender(i)
        /\ threads[i].pc \in FramePcs
        /\ threads[i].tags["pi"] = 2
        /\ DOMAIN threads[i].ovs # {}
        /\ hist.op = "set_over"

\* C7: the lock is held only for the snapshot copy, the snapshot replace and the
\* override map update.  The render thread does not hold it while it clears,
\* paints or flushes; the sampler does not hold it while it queries or sleeps
\* in its measurement.
C7_LockHeldOnlyForCopy ==
    /\ \A i \in 1..Len(threads) :
          /\ (IsRender(i) /\ threads[i].pc \in FramePcs) => lock # Some(Th(i))
          /\ (IsPoll(i) /\ threads[i].pc \in {"query", "measure"}) => lock # Some(Th(i))
          /\ lock = Some(Th(i)) => threads[i].pc \in {"copy"} \cup PublishPcs
    /\ \A c \in Callers :
          lock = Some(Me(c)) => callers[c].pc \in {"set_body", "clear_body"}

\* the renderer is inside its snapshot copy while the sampler is in its
\* measurement sleep
C7_Witness ==
    \E i \in 1..Len(threads), j \in 1..Len(threads) :
        /\ IsPoll(i) /\ threads[i].pc = "measure"
        /\ IsRender(j) /\ threads[j].pc = "copy"
        /\ lock = Some(Th(j))

\* C8 as claimed: no exception ends a loop.  A loop that has ended returned
\* from its `while self.running`; none was ended by an exception.
C8_NoErrorEndsLoop ==
    \A i \in 1..Len(threads) : threads[i].pc # "crashed"

----------------------------------------------------------------------------
(* Override claims. *)

QuadOrigin(q) ==
    CASE q = "pi" -> <<0, 0>> [] q = "tor" -> <<4, 0>> [] q = "ap" -> <<0, 4>>
      [] OTHER -> <<4, 4>>

\* the colour an active override shows at time t
Shown(ov, t) ==
    CASE ov.mode = "blink" -> blink(ov.color, t, DefaultPeriod)
      [] ov.mode = "pulse" -> pulse(ov.color, t)
      [] OTHER -> ov.color

\* the claim's "active": present in the frame's copy, and no expiry or the
\* frame-start time not past it
ActiveIn(ovs, q, t) ==
    /\ q \in DOMAIN ovs
    /\ ovs[q].expiry = None \/ t <= ovs[q].expiry[1]

\* C3: in every frame, with frame-start time t, a quadrant whose renderer
\* returns is painted with its override iff the frame's copied overrides hold an
\* entry for it whose expiry is none or not before t; otherwise it is painted
\* from the metrics alone, as if no override were there.  So a persistent
\* override stays, and one set for a duration d shows up to set time + d and
\* not after.
C3_OverrideActiveIffUnexpired ==
    [][\A i \in 1..Len(threads) : \A q \in Quadrants :
          (IsRender(i) /\ threads[i].pc = q /\ threads'[i].pc = AfterQuadrant(q)) =>
             LET th == threads[i]
                 painted == IF ActiveIn(th.ovs, q, th.t)
                            THEN _fill_quad(hd, QuadOrigin(q)[1], QuadOrigin(q)[2],
                                            Shown(th.ovs[q], th.t)).calls
                            ELSE RenderQuadrant(q, hd, th.st, NoOverrides, th.t).calls
             IN  /\ (_apply_override(OvGet(th.ovs, q), th.t) # None) <=> ActiveIn(th.ovs, q, th.t)
                 /\ sinkLog' = IF painted = <<>> THEN sinkLog
                               ELSE Logged(sinkLog, SinkOp("set_pixel", "render", painted))
      ]_vars

\* a frame that began after the expiry of the tor override it copied has
\* painted tor from the metrics
C3_Witness ==
    \E i \in 1..Len(threads) :
        /\ IsRender(i)
        /\ threads[i].pc = "ap"
        /\ "tor" \in DOMAIN threads[i].ovs
        /\ threads[i].ovs["tor"].expiry # None
        /\ threads[i].t > threads[i].ovs["tor"].expiry[1]
        /\ sinkLog # <<>>
        /\ sinkLog[Len(sinkLog)] =
              SinkOp("set_pixel", "render",
                     _fill_quad(hd, 4, 0, TorColor(threads[i].st.tor, threads[i].t)).calls)

\* C4: the overrides map is what the most recent calls asked for.  It holds for
\* each quadrant the colour, mode and expiry (none if persist, else time of the
\* call + duration) of the last set_override for that quadrant not followed by
\* a clear_override, and nothing else.
C4_MapHoldsLatestOverride ==
    /\ overrides = hist.last
    /\ DOMAIN overrides \subseteq Quadrants

\* a set_override has just replaced an entry that had expired
C4_Witness ==
    /\ hist.op = "set_over_expired"
    /\ "tor" \in DOMAIN overrides
    /\ overrides["tor"].expiry = Some(now + 1)
    /\ \A c \in Callers : callers[c].pc = "idle"

\* C5: clear_override(q) removes the entry of q if there is one and otherwise
\* changes nothing; it and set_override(q, ...) leave the entries of the other
\* quadrants, the metrics snapshot and the running flag as they were.
C5_OverrideCallsTouchOnlyTheirQuadrant ==
    [][\A c \in Callers :
          LET q == callers[c].q
              others(ovs) == [k \in (DOMAIN ovs) \ {q} |-> ovs[k]]
          IN  /\ (callers[c].pc = "clear_body" /\ callers'[c].pc = "idle") =>
                    /\ overrides' = others(overrides)
                    /\ q \notin DOMAIN overrides => overrides' = overrides
                    /\ state' = state /\ running' = running
              /\ (callers[c].pc = "set_body" /\ callers'[c].pc = "idle") =>
                    /\ others(overrides') = others(overrides)
                    /\ q \in DOMAIN overrides'
                    /\ state' = state /\ running' = running
      ]_vars

\* a clear_override of a quadrant with no entry has just returned, and the
\* entry of the other quadrant is there
C5_Witness ==
    /\ hist.op = "clear_absent"
    /\ DOMAIN overrides = {"ap"}
    /\ \A c \in Callers : callers[c].pc = "idle"

----------------------------------------------------------------------------
(* Sampler claims. *)

\* C9 as claimed: no sub-query failure propagates.  A poll cycle that has
\* begun its queries goes on to publish; it never falls back to the top of the
\* loop with nothing published.
C9_CycleAlwaysPublishes ==
    [][\A i \in 1..Len(threads) :
          (IsPoll(i) /\ threads[i].pc = "query") => threads'[i].pc # "top"
      ]_vars

Delta == (tIn.s2[1] - tIn.s1[1]) + (tIn.s2[2] - tIn.s1[2])

\* kbps = Delta * 8 / 1000 / 0.1 compared with threshold number k of the list
AtMost(k) == Delta * 2 <= buckets[k] * 25

\* C10: for a non-decreasing bucket list, _read_traffic_level returns 1 when
\* the throughput is at most the first threshold, i when it is above threshold
\* i-1 and at most threshold i, and len(buckets)+1 when it is above the last;
\* the result is always in 1..len(buckets)+1.
C10_TrafficLevelIsBucket ==
    tOut # None =>
        LET n == Len(buckets)
            level == tOut[1]
        IN  /\ level \in 1..(n + 1)
            /\ \A i \in 1..(n + 1) :
                  ((i > 1 => ~AtMost(i - 1)) /\ (i <= n => AtMost(i))) => level = i
            /\ (n > 0 /\ ~AtMost(n)) => level = n + 1
            /\ (n > 0 /\ AtMost(1)) => level = 1

\* with the default buckets, 800 bytes in the interval are exactly 64 kb/s,
\* and the level is 1
C10_Witness ==
    /\ buckets = DefaultBuckets
    /\ Delta = 800
    /\ tOut = Some(1)

----------------------------------------------------------------------------
(* Device claims. *)

\* every set_pixel call the sink remembers
SinkPixels == UNION {Range2Set(sinkLog[k].calls) : k \in 1..Len(sinkLog)}

\* C11 as claimed: with the 8x8 clipping mode on, no coordinate outside 0..7
\* reaches the sink.
C11_NoOutOfRangeWrite ==
    hd => \A c \in SinkPixels : c.x \in 0..7 /\ c.y \in 0..7

\* the driver the claimed probe order selects: high-resolution first, then
\* standard, else the no-op sink
ClaimedDriver(d) ==
    IF d.kind \in {"auto", "unicorn_hat_hd"} /\ d.hdmod THEN "unicornhathd"
    ELSE IF d.kind \in {"auto", "unicorn_hat"} /\ d.std THEN "unicornhat"
    ELSE "DummyUnicorn"

\* the driver lines 85-99 select: standard first, then high-resolution, else
\* the no-op sink
SelectedDriver(d) ==
    IF d.kind \in {"auto", "unicorn_hat"} /\ d.std THEN "unicornhat"
    ELSE IF d.kind \in {"auto", "unicorn_hat_hd"} /\ d.hdmod THEN "unicornhathd"
    ELSE "DummyUnicorn"

\* C18, amended: the sink is the standard driver if config.device allows it
\* and it is available, else the high-resolution driver if allowed and
\* available, else the no-op sink; clipping is on exactly with the
\* high-resolution driver; and neither the sink nor the clipping mode changes
\* afterwards.
C18_DeviceSelectionStandardFirst ==
    /\ [](/\ device.uh = SelectedDriver(device)
          /\ hd <=> (device.uh = "unicornhathd"))
    /\ [][device' = device /\ hd' = hd]_vars

\* both drivers were available, the standard one was chosen, and frames have
\* been flushed to it
C18_Witness ==
    /\ device.kind = "auto" /\ device.std /\ device.hdmod
    /\ device.uh = "unicornhat"
    /\ ~hd
    /\ running
    /\ sinkLog # <<>>
    /\ sinkLog[Len(sinkLog)] = SinkOp("show", "render", <<>>)

\* C18 as claimed: the sink is the high-resolution driver if it is available,
\* else the standard driver if it is, else the no-op sink; clipping is on
\* exactly with the high-resolution driver.
C18_DeviceSelection ==
    /\ device.uh = ClaimedDriver(device)
    /\ hd <=> (device.uh = "unicornhathd")

----------------------------------------------------------------------------
(* Cancellation. *)

AllExited == \A i \in 1..Len(threads) : ~Alive(threads[i])

\* C12: cancellation is eventually effective.  Under fair scheduling of the
\* loop threads, whenever the running flag is false, either both loops
\* eventually have exited or start() sets the flag again.
C12_LoopsEventuallyExit ==
    (~running) ~> (running \/ AllExited)

\* stop() returned while a loop was still alive (a join timed out), and both
\* loops have exited since
C12_Witness ==
    /\ Len(threads) = 2
    /\ \A i \in 1..Len(threads) : threads[i].pc = "done"
    /\ hist.quiet
    /\ ~hist.joined
    /\ ~running

----------------------------------------------------------------------------
(* Quadrant renderers. *)

\* the newest entry of the sink log
LastOp == sinkLog'[Len(sinkLog')]

\* the 16 set_pixel calls that fill the block at (ox, oy) with one colour
Block(ox, oy, color) == _fill_quad(hd, ox, oy, color).calls

\* the colour of the pi quadrant as the claim states it
PiReference(data, t) ==
    LET temp == Get(data, "temp", 0)
        load == Get(data, "load", 0)
        disk == Get(data, "disk", 0)
    IN  IF temp > CritTempC \/ disk > CritDiskPct THEN pulse(CritColor, t)
        ELSE IF load > WarnLoad \/ disk > WarnDiskPct
        THEN (IF 2 * (t % DefaultPeriod) < DefaultPeriod THEN WarnColor ELSE Off)
        ELSE <<0, (255 * Min(temp, 80)) \div 80, 0>>

\* C13: with no active override, the pi quadrant is filled with
\* pulse(critColor, now) if temp > critTempC or disk > critDiskPct, otherwise
\* with blink(warnColor, now) if load > warnLoad or disk > warnDiskPct,
\* otherwise with (0, int(255 * min(temp, 80) / 80), 0); critical wins over
\* warn.
C13_PiColourIsReference ==
    [][sinkLog' # sinkLog =>
          LastOp = SinkOp("set_pixel", "render", Block(0, 0, PiReference(state.pi, now)))
      ]_vars

\* temperature critical and load in warning at once, a quarter period into
\* the pulse: the block is painted in the pulsed critical colour
C13_Witness ==
    /\ state.pi # EmptyDict
    /\ state.pi.temp > CritTempC
    /\ state.pi.load > WarnLoad
    /\ now = T0 + 1
    /\ sinkLog # <<>>
    /\ sinkLog[Len(sinkLog)].calls = Block(0, 0, <<127, 0, 0>>)

\* the coordinates and the colours written by the newest sink entry
LastCoords == {<<c.x, c.y>> : c \in Range2Set(LastOp.calls)}
LastColours == {c.color : c \in Range2Set(LastOp.calls)}

\* C14 as claimed: with no active override, the traffic quadrant gets exactly
\* the bottom min(level, 4) rows of the block x in 4..7, y in 4..7, in
\* okColor; no pixel outside that block is written, whatever the level.
C14_TrafficBarsStayInBlock ==
    [][sinkLog' # sinkLog =>
          /\ LastCoords = {<<x, y>> \in (4..7) \X (4..7) :
                               y >= 8 - Min(state.traffic.level, 4)}
          /\ LastColours = {OkColor}
      ]_vars

\* the quadrant whose block holds the first pixel of the newest sink entry
LastQuadrant ==
    LET c == LastOp.calls[1]
    IN  CHOOSE q \in Quadrants :
            /\ c.x \in QuadOrigin(q)[1]..(QuadOrigin(q)[1] + 3)
            /\ c.y \in QuadOrigin(q)[2]..(QuadOrigin(q)[2] + 3)

\* C15: a quadrant with an active override is painted as one 4x4 block of one
\* colour: the override's colour if solid, blink(colour, now) if blink,
\* pulse(colour, now) if pulse; nothing derived from the metrics is drawn.
C15_ActiveOverrideFillsBlock ==
    [][(sinkLog' # sinkLog /\ ActiveIn(overrides, LastQuadrant, now)) =>
          LET q == LastQuadrant
              shown == CASE overrides[q].mode = "blink" ->
                                IF 2 * (now % DefaultPeriod) < DefaultPeriod
                                THEN overrides[q].color ELSE Off
                         [] overrides[q].mode = "pulse" -> pulse(overrides[q].color, now)
                         [] OTHER -> overrides[q].color
          IN  /\ LastOp.calls = Block(QuadOrigin(q)[1], QuadOrigin(q)[2], shown)
              /\ LastCoords = (QuadOrigin(q)[1]..(QuadOrigin(q)[1] + 3)) \X
                              (QuadOrigin(q)[2]..(QuadOrigin(q)[2] + 3))
              /\ LastColours = {shown}
      ]_vars

\* the ap quadrant, active with two clients, has just been painted with its
\* pulsing override a quarter period in: one colour, no white marks
C15_Witness ==
    /\ overrides["ap"].mode = "pulse"
    /\ overrides["ap"].expiry = None
    /\ state.ap.active /\ state.ap.clients = 2
    /\ now = T0 + 1
    /\ sinkLog # <<>>
    /\ sinkLog[Len(sinkLog)].calls = Block(0, 4, <<124, 49, 24>>)

\* C17: with no active override on ap, an active access point gets its block
\* at (0,4) filled with the ap colour and then exactly min(clients, 4) white
\* pixels at local (i,i), i = 0..min(clients,4)-1; an inactive one gets the
\* block filled with red blinking at the fast period and no white pixel.
C17_ApBlockAndClientMarks ==
    [][(sinkLog' # sinkLog /\ ~ActiveIn(overrides, "ap", now)) =>
          LET calls == LastOp.calls
              up == state.ap # EmptyDict /\ state.ap.active
              n == IF up THEN Min(state.ap.clients, 4) ELSE 0
              whites == {k \in 1..Len(calls) : calls[k].color = White}
          IN  /\ Len(calls) = 16 + n
              /\ SubSeq(calls, 1, 16) =
                     Block(0, 4, IF up THEN ApOnColor
                                 ELSE IF 2 * (now % FastPeriod) < FastPeriod THEN Red ELSE Off)
              /\ whites = 17..(16 + n)
              /\ \A i \in 0..(n - 1) : calls[17 + i].x = i /\ calls[17 + i].y = 4 + i
      ]_vars

\* five clients on an active access point: the newest sink entry is the block
\* followed by four white pixels, the last at (3,7)
C17_Witness ==
    /\ state.ap # EmptyDict
    /\ state.ap.active /\ state.ap.clients = 5
    /\ sinkLog # <<>>
    /\ Len(sinkLog[Len(sinkLog)].calls) = 20
    /\ sinkLog[Len(sinkLog)].calls[20] = [x |-> 3, y |-> 7, color |-> White]

----------------------------------------------------------------------------
(* Frame claims. *)

\* the steps of one frame, and where the loop goes after it
FrameOrder == <<"copy", "clear", "pi", "tor", "ap", "traffic", "show", "top">>

\* C16: a frame is one copy of state and overrides, one clear, the paints of pi
\* at (0,0), tor at (4,0), ap at (0,4) and traffic at (4,4) in that order, and
\* one show; every paint is resolved from the frame's copy and its start time,
\* and nothing is shown between the clear and the last paint.
C16_FrameSequence ==
    [][\A i \in 1..Len(threads) :
          (/\ IsRender(i)
           /\ threads'[i].pc # threads[i].pc
           /\ \E k \in 1..7 : FrameOrder[k] = threads[i].pc) =>
             LET th == threads[i]
                 k == CHOOSE k \in 1..7 : FrameOrder[k] = th.pc
                 kept == /\ threads'[i].st = th.st
                         /\ threads'[i].ovs = th.ovs
                         /\ threads'[i].t = th.t
                 newest == sinkLog'[Len(sinkLog')]
             IN  /\ threads'[i].pc = FrameOrder[k + 1]
                 /\ k = 1 => /\ threads'[i].st = state
                             /\ threads'[i].ovs = overrides
                             /\ threads'[i].t = th.t
                             /\ sinkLog' = sinkLog
                 /\ k = 2 => /\ kept
                             /\ sinkLog' = Logged(sinkLog, SinkOp("clear", "render", <<>>))
                 /\ k \in 3..6 =>
                        /\ kept
                        /\ \/ sinkLog' = sinkLog
                           \/ /\ sinkLog' = Logged(sinkLog, newest)
                              /\ newest.op = "set_pixel"
                              /\ newest.calls = RenderQuadrant(th.pc, hd, th.st, th.ovs, th.t).calls
                              /\ \A c \in Range2Set(newest.calls) :
                                    /\ c.x \in QuadOrigin(th.pc)[1]..(QuadOrigin(th.pc)[1] + 3)
                                    /\ c.y \in QuadOrigin(th.pc)[2]..(QuadOrigin(th.pc)[2] + 3)
                 /\ k = 7 => sinkLog' = Logged(sinkLog, SinkOp("show", "render", <<>>))
      ]_vars

\* a frame that started before the clock moved has ended: traffic bars were
\* its last paint, the show followed, and the loop is back at its test
C16_Witness ==
    \E i \in 1..Len(threads) :
        /\ IsRender(i)
        /\ threads[i].pc = "top"
        /\ now > T0
        /\ "ap" \in DOMAIN overrides
        /\ Len(sinkLog) = 2
        /\ sinkLog[2] = SinkOp("show", "render", <<>>)
        /\ sinkLog[1].op = "set_pixel"
        /\ sinkLog[1].calls[1].x >= 4 /\ sinkLog[1].calls[1].y >= 4

----------------------------------------------------------------------------
(* Lifecycle across calls. *)

\* the threads of a kind that have been started and have not ended
AliveOf(kind) == {i \in 1..Len(threads) : threads[i].kind = kind /\ Alive(threads[i])}

\* C19 as claimed: at any time at most one sampler loop and at most one render
\* loop are alive, whatever start() and stop() calls were made and however
\* they interleave.
C19_AtMostOneLoopOfEachKind ==
    /\ Cardinality(AliveOf("poll")) <= 1
    /\ Cardinality(AliveOf("render")) <= 1

----------------------------------------------------------------------------
(* Expiry across frames. *)

\* C20: expiry is permanent and rendering changes nothing shared.  A frame
\* resolves overrides from the copy it takes; once a frame's copy held an entry
\* for q expired at its start time, no later frame's copy holds an active one
\* for q unless set_override(q) ran in between.  An entry leaves the map or
\* changes only by a set_override or clear_override of its quadrant, and no
\* step of a render thread changes state or overrides.
C20_ExpiryIsPermanent ==
    [][/\ \A i \in 1..Len(threads) :
             (IsRender(i) /\ threads[i].pc = "copy" /\ threads'[i].pc = "clear") =>
                 \A q \in Quadrants :
                     hist.lapsed[q] > 0 =>
                        /\ ~ActiveIn(threads'[i].ovs, q, threads'[i].t)
                        /\ _apply_override(OvGet(threads'[i].ovs, q), threads'[i].t) = None
       /\ \A q \in DOMAIN overrides :
             (q \notin DOMAIN overrides' \/ overrides'[q] # overrides[q]) =>
                 \E c \in Callers :
                     /\ callers[c].pc \in {"set_body", "clear_body"}
                     /\ callers[c].q = q
                     /\ callers'[c].pc = "idle"
       /\ (\E i \in 1..Len(threads) : IsRender(i) /\ threads'[i] # threads[i]) =>
             (state' = state /\ overrides' = overrides)
      ]_vars

\* two frames in a row have found the ap override expired, and the entry is
\* still in the map
C20_Witness ==
    /\ hist.lapsed["ap"] = 2
    /\ "ap" \in DOMAIN overrides
    /\ Expired(overrides["ap"], now)

====
